---------------------------- MODULE Spec2Model ----------------------------
(***************************************************************************)
(* A model of create_funnel_plot (src/funnel_plot.py): the statistics it   *)
(* computes (inverse-variance weights, weighted summary effect, precision, *)
(* the standard-error grid and the 95% / 99% funnel boundaries, the        *)
(* regression behind Egger's test) and the order in which the function     *)
(* reaches the places where it can raise.                                  *)
(*                                                                         *)
(* Numbers.  A float is modelled by an exact rational <<n, d>> in lowest   *)
(* terms with d > 0, extended by the three IEEE-754 special values that    *)
(* numpy produces instead of raising: <<1, 0>> is +inf, <<-1, 0>> is -inf  *)
(* and <<0, 0>> is NaN.  Rounding error of float64 is not modelled: an     *)
(* equality below is an equality of the real-number results.               *)
(*                                                                         *)
(* Arguments.  effect_sizes and standard_errors enter the state at the     *)
(* call; p_values and save_name enter it at the first line that reads them *)
(* (147 and 256), which no earlier line depends on.                        *)
(*                                                                         *)
(* Forest plots.  The record forest holds the run of one of the three      *)
(* forest scripts (forest_plot_horizontal.py, forest_plot_pairwise.py,     *)
(* forest_plot_subgroup.py): its arguments, the rows it has drawn (CI      *)
(* lines, diamonds, value boxes, tick labels), the order of savefig and    *)
(* show, and the files written.  One script runs at a time.                *)
(***************************************************************************)
EXTENDS Integers, Sequences, FiniteSets, TLC

VARIABLES
    pc,               \* where the call stands: idle, stats, ..., done, error
    effect_sizes,     \* argument effect_sizes
    standard_errors,  \* argument standard_errors
    p_values,         \* argument p_values: None or Some(a sequence)
    save_name,        \* argument save_name: "None" or a file name
    weights,          \* line 91
    summary_effect,   \* line 92
    precision,        \* line 95
    se_range,         \* line 107
    ci_left_95,       \* line 111
    ci_right_95,      \* line 112
    ci_left_99,       \* line 115
    ci_right_99,      \* line 116
    sig_points,       \* the scatter group drawn at lines 153-155
    ns_points,        \* the scatter group drawn at lines 158-160 or 162-164
    xlim,             \* the x-axis limits set at line 191
    ylim,             \* the y-axis limits set at line 192
    egger,            \* what section H (lines 226-249) produced
    files,            \* the files plt.savefig wrote in this call, in order
    shown,            \* whether plt.show() was reached in this call
    result,           \* None, or Some(the summary effect returned at line 262)
    error,            \* None, or Some(<<exception, line that raised it>>)
    events,           \* the pyplot calls of lines 257 and 260, in order
    earlier,          \* None, or Some(what an earlier call was given and made)
    forest            \* the forest-plot script that is running, if any

vars == <<pc, effect_sizes, standard_errors, p_values, save_name, weights,
          summary_effect, precision, se_range, ci_left_95, ci_right_95,
          ci_left_99, ci_right_99, sig_points, ns_points, xlim, ylim, egger,
          files, shown, result, error, events, earlier, forest>>

-----------------------------------------------------------------------------
(* Bounds of the model. *)

\* The longest effect_sizes / standard_errors / p_values sequence of a call.
MaxN == 3

\* The values an effect size, a standard error and a p-value are drawn from,
\* and the file names a call may be given.  SEVals are standard errors as
\* the statistics expect them; SEAny adds a zero and a negative one, which
\* the code accepts like any other number; SETiny are small positive ones.
ESVals == {<<-1, 1>>, <<2, 1>>}
SEVals == {<<1, 1>>, <<2, 1>>}
SEAny == SEVals \cup {<<-1, 1>>, <<0, 1>>}
SETiny == {<<1, 200>>, <<1, 100>>}
PVals == {<<1, 100>>, <<5, 100>>}
SaveNames == {"None", "", "funnel_plot.png"}

\* The most comparisons (rows) of a forest plot, or of one of its subgroups.
MaxRows == 2

\* The most subgroups of a subgroup forest plot.
MaxGroups == 2

\* An optional value: None, or Some(v).
None == <<>>

Some(v) == <<v>>

SeqsUpTo(S, n) == UNION {[1..k -> S] : k \in 0..n}

-----------------------------------------------------------------------------
(* Extended rational arithmetic: what the float operations of numpy compute. *)

Abs(x) == IF x < 0 THEN -x ELSE x

Sign(x) == IF x < 0 THEN -1 ELSE IF x > 0 THEN 1 ELSE 0

RECURSIVE GCD(_, _)
GCD(a, b) == IF b = 0 THEN a ELSE GCD(b, a % b)

\* n / d in lowest terms; d = 0 gives +inf, -inf or NaN by the sign of n.
Norm(n, d) ==
    IF d = 0 THEN <<Sign(n), 0>>
    ELSE LET s == IF d < 0 THEN -1 ELSE 1
             g == GCD(Abs(n), Abs(d))
         IN  <<s * (n \div g), s * (d \div g)>>

NaN == <<0, 0>>
PosInf == <<1, 0>>
Zero == <<0, 1>>
One == <<1, 1>>

IsNaN(a) == a = NaN
IsFinite(a) == a[2] # 0

RNeg(a) == <<-a[1], a[2]>>

RAdd(a, b) ==
    IF IsNaN(a) \/ IsNaN(b) THEN NaN
    ELSE IF a[2] = 0 /\ b[2] = 0 THEN (IF a = b THEN a ELSE NaN)
    ELSE IF a[2] = 0 THEN a
    ELSE IF b[2] = 0 THEN b
    ELSE LET g == GCD(a[2], b[2])
         IN  Norm(a[1] * (b[2] \div g) + b[1] * (a[2] \div g),
                  (a[2] \div g) * b[2])

RSub(a, b) == RAdd(a, RNeg(b))

RMul(a, b) ==
    IF IsNaN(a) \/ IsNaN(b) THEN NaN
    ELSE IF a[2] = 0 \/ b[2] = 0 THEN <<Sign(a[1]) * Sign(b[1]), 0>>
    ELSE LET g1 == GCD(Abs(a[1]), b[2])
             g2 == GCD(Abs(b[1]), a[2])
         IN  Norm((a[1] \div g1) * (b[1] \div g2),
                  (a[2] \div g2) * (b[2] \div g1))

\* 1 / a as numpy divides: 1 / 0 is inf (a RuntimeWarning, no exception).
RInv(a) ==
    IF IsNaN(a) THEN NaN
    ELSE IF a[2] = 0 THEN Zero
    ELSE IF a[1] = 0 THEN PosInf
    ELSE <<Sign(a[1]) * a[2], Abs(a[1])>>

RDiv(a, b) == RMul(a, RInv(b))

\* a < b as floats compare: every comparison with NaN is false.
RLess(a, b) ==
    IF IsNaN(a) \/ IsNaN(b) THEN FALSE
    ELSE IF a[2] = 0 /\ b[2] = 0 THEN a[1] < b[1]
    ELSE IF a[2] = 0 THEN a[1] < 0
    ELSE IF b[2] = 0 THEN b[1] > 0
    ELSE LET g == GCD(a[2], b[2])
         IN  a[1] * (b[2] \div g) < b[1] * (a[2] \div g)

RLeq(a, b) == RLess(a, b) \/ (~IsNaN(a) /\ a = b)

-----------------------------------------------------------------------------
(* numpy and builtin operations on one-dimensional arrays (sequences). *)

\* Two shapes (a,) and (b,) broadcast iff they are equal or one of them is 1.
Broadcastable(a, b) == Len(a) = Len(b) \/ Len(a) = 1 \/ Len(b) = 1

BLen(a, b) == IF Len(a) = 1 THEN Len(b) ELSE Len(a)

Elem(a, i) == IF Len(a) = 1 THEN a[1] ELSE a[i]

\* a * b, elementwise with broadcasting.
VMul(a, b) == [i \in 1..BLen(a, b) |-> RMul(Elem(a, i), Elem(b, i))]

\* np.sum: the sum of the elements, 0.0 for an empty array.
RECURSIVE SumTo(_, _)
SumTo(a, k) == IF k = 0 THEN Zero ELSE RAdd(SumTo(a, k - 1), a[k])

\* A faulty sum: the last element is left out.
SumSkipLast(a) == IF Len(a) = 0 THEN Zero ELSE SumTo(a, Len(a) - 1)

Sum(a) == SumTo(a, Len(a))

\* The builtin max / min of a non-empty array: the first element that no
\* later element exceeds (is less than).
RECURSIVE MaxTo(_, _)
MaxTo(a, k) ==
    IF k = 1 THEN a[1]
    ELSE LET m == MaxTo(a, k - 1) IN IF RLess(m, a[k]) THEN a[k] ELSE m

Max(a) == MaxTo(a, Len(a))

RECURSIVE MinTo(_, _)
MinTo(a, k) ==
    IF k = 1 THEN a[1]
    ELSE LET m == MinTo(a, k - 1) IN IF RLess(a[k], m) THEN a[k] ELSE m

Min(a) == MinTo(a, Len(a))

\* np.linspace(start, stop, num): start + i * step, the last point set to stop.
Linspace(start, stop, num) ==
    LET step == RDiv(RSub(stop, start), <<num - 1, 1>>)
    IN  [i \in 1..num |->
            IF i = num THEN stop ELSE RAdd(start, RMul(<<i - 1, 1>>, step))]

\* a[mask] with a boolean mask: the elements where the mask is true, in order.
RECURSIVE MaskTo(_, _, _)
MaskTo(a, mask, k) ==
    IF k = 0 THEN <<>>
    ELSE IF mask[k] THEN Append(MaskTo(a, mask, k - 1), a[k])
    ELSE MaskTo(a, mask, k - 1)

\* numpy raises IndexError unless the mask is as long as the array.
MaskIndexOK(a, mask) == Len(mask) = Len(a)

\* A faulty scatter: it broadcasts like the arithmetic does.
ScatterBroadcasts(x, y) == Broadcastable(x, y)

\* Axes.scatter raises ValueError unless x and y have the same size.
ScatterOK(x, y) == Len(x) = Len(y)

-----------------------------------------------------------------------------
(* The statistics of create_funnel_plot. *)

GridPoints == 100

GridStart == <<1, 100>>

GridStretch == <<13, 10>>

Z95 == <<196, 100>>

\* A faulty outer z-score: narrower than the 95% one.
Z90 == <<1645, 1000>>

Z99 == <<258, 100>>

Alpha == <<5, 100>>

\* Faulty weights: the standard errors are not squared.
WeightsUnsquared(se) == [i \in 1..Len(se) |-> RInv(se[i])]

\* weights = 1 / (standard_errors ** 2)
Weights(se) == [i \in 1..Len(se) |-> RInv(RMul(se[i], se[i]))]

\* A faulty summary: the weighted sum is divided by the number of effects.
SummaryOverCount(es, se) ==
    RDiv(Sum(VMul(Weights(se), es)), <<Len(es), 1>>)

\* A faulty summary: the weights are ignored.
SummaryUnweighted(es, se) == RDiv(Sum(es), <<Len(es), 1>>)

\* summary_effect = np.sum(weights * effect_sizes) / np.sum(weights)
SummaryEffect(es, se) ==
    RDiv(Sum(VMul(Weights(se), es)), Sum(Weights(se)))

\* A faulty precision: the reciprocals in reverse order.
PrecisionReversed(se) == [i \in 1..Len(se) |-> RInv(se[Len(se) + 1 - i])]

\* precision = 1 / standard_errors
Precision(se) == [i \in 1..Len(se) |-> RInv(se[i])]

\* se_range = np.linspace(0.01, max(standard_errors) * 1.3, 100)
SeRange(se) == Linspace(GridStart, RMul(Max(se), GridStretch), GridPoints)

\* summary_effect - z * se_range and summary_effect + z * se_range
CiLeft(summary, z, grid) ==
    [i \in 1..Len(grid) |-> RSub(summary, RMul(z, grid[i]))]

\* A faulty right boundary: the grid is not scaled by z.
CiRightUnscaled(summary, z, grid) ==
    [i \in 1..Len(grid) |-> RAdd(summary, grid[i])]

CiRight(summary, z, grid) ==
    [i \in 1..Len(grid) |-> RAdd(summary, RMul(z, grid[i]))]

\* A faulty colour test: p <= 0.05 counts as significant.
SignificantOrEqual(p) == RLeq(p, Alpha)

\* p < 0.05
Significant(p) == RLess(p, Alpha)

\* sig_mask = p_values < 0.05
SigMask(p) == [i \in 1..Len(p) |-> Significant(p[i])]

NotMask(mask) == [i \in 1..Len(mask) |-> ~mask[i]]

\* The points of a scatter call: (effect size, precision) pairs.
Points(x, y) == [i \in 1..BLen(x, y) |-> <<Elem(x, i), Elem(y, i)>>]

-----------------------------------------------------------------------------
(* scipy.stats.linregress(x, y) as section H calls it, x = standard_errors  *)
(* and y = effect_sizes.  Its pvalue is the two-sided p-value of the Wald   *)
(* test, with the t distribution on n - 2 degrees of freedom, of the null   *)
(* hypothesis that the SLOPE is zero: p = 2 * sf(|t|, n - 2) with           *)
(* t^2 = r^2 * (n - 2) / (1 - r^2).  A p-value is a strictly decreasing     *)
(* function of t^2 for a fixed n - 2, so the model carries a p-value as the *)
(* pair (t^2, n - 2) it is computed from.                                   *)

Mean(a) == RDiv(Sum(a), <<Len(a), 1>>)

Centred(a) == [i \in 1..Len(a) |-> RSub(a[i], Mean(a))]

\* The entries of np.cov(x, y, bias=1): mean products of deviations.
Cov(a, b) == Mean(VMul(Centred(a), Centred(b)))

AllSame(a) == \A i \in 1..Len(a) : a[i] = a[1]

RSquared(x, y) ==
    IF Cov(x, x) = Zero \/ Cov(y, y) = Zero THEN Zero
    ELSE RDiv(RMul(Cov(x, y), Cov(x, y)), RMul(Cov(x, x), Cov(y, y)))

Slope(x, y) == RDiv(Cov(x, y), Cov(x, x))

\* A faulty intercept: the mean of y, as if the line were flat.
InterceptFlat(x, y) == Mean(y)

Intercept(x, y) == RSub(Mean(y), RMul(Slope(x, y), Mean(x)))

\* t^2 of the slope: what linregress turns into its pvalue.
SlopeT2(x, y) ==
    RDiv(RMul(RSquared(x, y), <<Len(x) - 2, 1>>), RSub(One, RSquared(x, y)))

\* The result fields create_funnel_plot unpacks and uses.
Linregress(x, y) ==
    [slope |-> Slope(x, y), intercept |-> Intercept(x, y),
     t2 |-> SlopeT2(x, y), df |-> Len(x) - 2]

\* The squared 0.975 quantile of the t distribution (scipy.stats.t), to the
\* precision shown: p < 0.05 exactly when t^2 exceeds it.
TCrit2(df) ==
    CASE df = 1 -> <<1614476, 10000>>
      [] df = 2 -> <<722, 39>>
      [] df = 3 -> <<1012796, 100000>>
      [] df = 4 -> <<7708647, 1000000>>
      [] OTHER -> <<384146, 100000>>

\* A faulty comparison: p <= 0.05.
PAtMostAlpha(t2, df) == RLeq(TCrit2(df), t2)

\* p_value_egger < 0.05
PBelowAlpha(t2, df) == RLess(TCrit2(df), t2)

\* The last line of egger_text.
Verdict(t2, df) ==
    IF PBelowAlpha(t2, df) THEN "Potential asymmetry"
    ELSE "No significant asymmetry"

NoEgger == [status |-> "none"]

\* No forest-plot script is running.
NoForest == [script |-> "none"]

-----------------------------------------------------------------------------
(* The calls. *)

NoResults ==
    /\ weights' = "None"
    /\ summary_effect' = "None"
    /\ precision' = "None"
    /\ se_range' = "None"
    /\ ci_left_95' = "None"
    /\ ci_right_95' = "None"
    /\ ci_left_99' = "None"
    /\ ci_right_99' = "None"
    /\ sig_points' = "None"
    /\ ns_points' = "None"
    /\ xlim' = "None"
    /\ ylim' = "None"
    /\ egger' = NoEgger
    /\ files' = <<>>
    /\ shown' = FALSE
    /\ result' = None

\* An exception leaves create_funnel_plot: its locals are gone and nothing is
\* returned.  Every raise comes before plt.savefig, so no file is written.
Raise(exc, line) ==
    /\ pc' = "error"
    /\ error' = Some(<<exc, line>>)
    /\ NoResults
    /\ UNCHANGED <<effect_sizes, standard_errors, save_name>>

Init ==
    /\ pc = "idle"
    /\ effect_sizes = <<>>
    /\ standard_errors = <<>>
    /\ p_values = None
    /\ save_name = "None"
    /\ weights = "None"
    /\ summary_effect = "None"
    /\ precision = "None"
    /\ se_range = "None"
    /\ ci_left_95 = "None"
    /\ ci_right_95 = "None"
    /\ ci_left_99 = "None"
    /\ ci_right_99 = "None"
    /\ sig_points = "None"
    /\ ns_points = "None"
    /\ xlim = "None"
    /\ ylim = "None"
    /\ egger = NoEgger
    /\ files = <<>>
    /\ shown = FALSE
    /\ result = None
    /\ error = None
    /\ events = <<>>
    /\ earlier = None
    /\ forest = NoForest

\* create_funnel_plot(effect_sizes, standard_errors, ...) is entered.
Enter(es, se) ==
    /\ pc = "idle"
    /\ effect_sizes' = es
    /\ standard_errors' = se
    /\ p_values' = None
    /\ save_name' = "None"
    /\ pc' = "stats"
    /\ error' = None
    /\ NoResults
    /\ events' = <<>>
    /\ UNCHANGED <<earlier, forest>>

\* A call with positive standard errors, the lengths of the two lists free.
Call ==
    \E es \in SeqsUpTo(ESVals, MaxN), se \in SeqsUpTo(SEVals, MaxN) :
        Enter(es, se)

\* A call with any standard errors.
CallAnySE ==
    \E es \in SeqsUpTo(ESVals, MaxN), se \in SeqsUpTo(SEAny, MaxN) :
        Enter(es, se)

\* A call with small positive standard errors.
CallTinySE ==
    \E es \in SeqsUpTo(ESVals, MaxN), se \in SeqsUpTo(SETiny, MaxN) :
        Enter(es, se)

\* Lines 87-95: the weights, the summary effect and the precision.
ComputeStats ==
    /\ pc = "stats"
    /\ UNCHANGED <<events, earlier, forest>>
    /\ IF ~Broadcastable(Weights(standard_errors), effect_sizes)
       THEN Raise("ValueError", 92) /\ UNCHANGED p_values
       ELSE /\ weights' = Weights(standard_errors)
            /\ summary_effect' = SummaryEffect(effect_sizes, standard_errors)
            /\ precision' = Precision(standard_errors)
            /\ pc' = "funnel"
            /\ UNCHANGED <<effect_sizes, standard_errors, p_values, save_name,
                           se_range, ci_left_95, ci_right_95, ci_left_99,
                           ci_right_99, sig_points, ns_points, xlim, ylim,
                           egger, files, shown, result, error>>

\* Lines 104-138: the grid, the funnel boundaries, the reference lines.
\* max() of an empty sequence raises ValueError.
DrawFunnel ==
    /\ pc = "funnel"
    /\ UNCHANGED <<events, earlier, forest>>
    /\ IF Len(precision) = 0
       THEN Raise("ValueError", 104) /\ UNCHANGED p_values
       ELSE /\ se_range' = SeRange(standard_errors)
            /\ ci_left_95' = CiLeft(summary_effect, Z95, se_range')
            /\ ci_right_95' = CiRight(summary_effect, Z95, se_range')
            /\ ci_left_99' = CiLeft(summary_effect, Z99, se_range')
            /\ ci_right_99' = CiRight(summary_effect, Z99, se_range')
            /\ pc' = "scatter"
            /\ UNCHANGED <<effect_sizes, standard_errors, p_values, save_name,
                           weights, summary_effect, precision, sig_points,
                           ns_points, xlim, ylim, egger, files, shown, result,
                           error>>

\* Lines 147-174: the data points, split by significance when p-values are
\* given.  A boolean mask of another length than the array it indexes raises
\* IndexError; scatter raises ValueError for x and y of different sizes.
PlotPoints ==
    /\ pc = "scatter"
    /\ UNCHANGED <<events, earlier, forest>>
    /\ \E pv \in {None} \cup {Some(p) : p \in SeqsUpTo(PVals, MaxN)} :
          p_values' = pv
    /\ IF p_values' = None
       THEN IF ~ScatterOK(effect_sizes, precision)
            THEN Raise("ValueError", 162)
            ELSE /\ sig_points' = <<>>
                 /\ ns_points' = Points(effect_sizes, precision)
                 /\ pc' = "limits"
                 /\ UNCHANGED <<effect_sizes, standard_errors,
                                save_name, weights, summary_effect, precision,
                                se_range, ci_left_95, ci_right_95, ci_left_99,
                                ci_right_99, xlim, ylim, egger, files, shown,
                                result, error>>
       ELSE IF ~(MaskIndexOK(effect_sizes, SigMask(p_values'[1]))
                 /\ MaskIndexOK(precision, SigMask(p_values'[1])))
            THEN Raise("IndexError", 153)
            ELSE /\ sig_points' =
                        MaskTo(Points(effect_sizes, precision),
                               SigMask(p_values'[1]), Len(p_values'[1]))
                 /\ ns_points' =
                        MaskTo(Points(effect_sizes, precision),
                               NotMask(SigMask(p_values'[1])), Len(p_values'[1]))
                 /\ pc' = "limits"
                 /\ UNCHANGED <<effect_sizes, standard_errors,
                                save_name, weights, summary_effect, precision,
                                se_range, ci_left_95, ci_right_95, ci_left_99,
                                ci_right_99, xlim, ylim, egger, files, shown,
                                result, error>>

\* x_margin = (max(effect_sizes) - min(effect_sizes)) * 0.3
XMargin(es) == RMul(RSub(Max(es), Min(es)), <<3, 10>>)

\* (min(effect_sizes) - x_margin - 1, max(effect_sizes) + x_margin + 1)
XLim(es) ==
    <<RSub(RSub(Min(es), XMargin(es)), One),
      RAdd(RAdd(Max(es), XMargin(es)), One)>>

\* (0, max(precision) * 1.2)
YLim(prec) == <<Zero, RMul(Max(prec), <<12, 10>>)>>

\* set_xlim / set_ylim raise ValueError for a limit that is NaN or Inf.
LimitsOK(lim) == IsFinite(lim[1]) /\ IsFinite(lim[2])

\* Lines 179-220: labels, title, axis limits, grid, legend, guide box.
SetLimits ==
    /\ pc = "limits"
    /\ UNCHANGED <<events, earlier, forest>>
    /\ IF ~(LimitsOK(XLim(effect_sizes)) /\ LimitsOK(YLim(precision)))
       THEN Raise("ValueError", 192) /\ UNCHANGED p_values
       ELSE /\ xlim' = XLim(effect_sizes)
            /\ ylim' = YLim(precision)
            /\ pc' = "egger"
            /\ UNCHANGED <<effect_sizes, standard_errors, p_values, save_name,
                           weights, summary_effect, precision, se_range,
                           ci_left_95, ci_right_95, ci_left_99, ci_right_99,
                           sig_points, ns_points, egger, files, shown, result,
                           error>>

EggerDone(e) ==
    /\ egger' = e
    /\ pc' = "save"
    /\ UNCHANGED <<effect_sizes, standard_errors, p_values, save_name, weights,
                   summary_effect, precision, se_range, ci_left_95,
                   ci_right_95, ci_left_99, ci_right_99, sig_points, ns_points,
                   xlim, ylim, files, shown, result, error>>

\* The annotation drawn at lines 231-249 from a linregress result.
EggerText(fit) ==
    [status |-> "fit", slope |-> fit.slope, intercept |-> fit.intercept,
     t2 |-> fit.t2, df |-> fit.df, verdict |-> Verdict(fit.t2, fit.df)]

\* A faulty guard: two points are taken to be enough.
EnoughPointsTwo(es) == Len(es) >= 2

\* A faulty guard: the regression is fitted only for coloured points.
EnoughPointsColoured(es) == Len(es) >= 3 /\ p_values # None

\* The len(effect_sizes) >= 3 of line 226.
EnoughPoints(es) == Len(es) >= 3

\* Lines 226-249.  With fewer than 3 points nothing is fitted and nothing is
\* drawn.  For standard errors that are all identical the outcome depends on
\* the installed scipy: it raises ValueError ("all x values are identical"),
\* or, in releases before that check, returns r = 0 (so t = 0, p = 1) with a
\* NaN slope and intercept.
EggerTest ==
    /\ pc = "egger"
    /\ UNCHANGED <<events, earlier, forest>>
    /\ \/ /\ ~EnoughPoints(effect_sizes)
          /\ EggerDone([status |-> "insufficient"])
       \/ /\ EnoughPoints(effect_sizes)
          /\ ~AllSame(standard_errors)
          /\ EggerDone(EggerText(Linregress(standard_errors, effect_sizes)))
       \/ /\ EnoughPoints(effect_sizes)
          /\ AllSame(standard_errors)
          /\ Raise("ValueError", 227)
          /\ UNCHANGED p_values
       \/ /\ EnoughPoints(effect_sizes)
          /\ AllSame(standard_errors)
          /\ EggerDone(EggerText([slope |-> NaN, intercept |-> NaN,
                                  t2 |-> Zero,
                                  df |-> Len(standard_errors) - 2]))

\* A faulty test of the file name: only None is false.
NotNone(name) == name # "None"

\* if save_name: an empty name is false, like None.
Truthy(name) == name # "None" /\ name # ""

\* Lines 254-262: tight_layout, savefig if a name was given, show, return.
SaveAndShow ==
    /\ pc = "save"
    /\ \E sn \in SaveNames : save_name' = sn
    /\ files' = IF Truthy(save_name') THEN Append(files, save_name') ELSE files
    /\ shown' = TRUE
    /\ events' = (IF Truthy(save_name') THEN <<"savefig">> ELSE <<>>)
                      \o <<"show">>
    /\ result' = Some(summary_effect)
    /\ pc' = "done"
    /\ UNCHANGED <<earlier, forest>>
    /\ UNCHANGED <<effect_sizes, standard_errors, p_values, weights,
                   summary_effect, precision, se_range, ci_left_95,
                   ci_right_95, ci_left_99, ci_right_99, sig_points, ns_points,
                   xlim, ylim, egger, error>>

\* The call is over: its arguments and locals are gone.
Leave ==
    /\ pc \in {"done", "error"}
    /\ pc' = "idle"
    /\ effect_sizes' = <<>>
    /\ standard_errors' = <<>>
    /\ p_values' = None
    /\ save_name' = "None"
    /\ error' = None
    /\ events' = <<>>
    /\ NoResults

\* A faulty return: the locals of the call stay behind.
FinishKeeping ==
    /\ pc \in {"done", "error"}
    /\ pc' = "idle"
    /\ UNCHANGED <<effect_sizes, standard_errors, p_values, save_name,
                   weights, summary_effect, precision, se_range, ci_left_95,
                   ci_right_95, ci_left_99, ci_right_99, sig_points, ns_points,
                   xlim, ylim, egger, files, shown, result, error, events,
                   earlier, forest>>

\* The caller has the result (or the exception) and may call again.
Finish == Leave /\ UNCHANGED <<earlier, forest>>

\* The next lines of a call that is under way.
Step ==
    \/ ComputeStats
    \/ DrawFunnel
    \/ PlotPoints
    \/ SetLimits
    \/ EggerTest
    \/ SaveAndShow

Run == Step \/ Finish

Next == Call \/ Run

\* Calls with positive standard errors.
Spec == Init /\ [][Next]_vars

NextAnySE == CallAnySE \/ Run

\* Calls with any standard errors: zero and negative ones too.
SpecAnySE == Init /\ [][NextAnySE]_vars

NextTinySE == CallTinySE \/ Run

\* Calls with small positive standard errors.
SpecTinySE == Init /\ [][NextTinySE]_vars

-----------------------------------------------------------------------------
(* Two calls on the same data.  The caller keeps what a completed call was *)
(* given and what it made, and from then on calls with the same            *)
(* effect_sizes and standard_errors, the other arguments free as in every  *)
(* call.                                                                   *)

\* What the caller keeps of a completed call.
Kept ==
    [effect_sizes |-> effect_sizes, standard_errors |-> standard_errors,
     coloured |-> p_values # None, saved |-> files # <<>>,
     summary_effect |-> result[1], precision |-> precision,
     se_range |-> se_range,
     ci_left_95 |-> ci_left_95, ci_right_95 |-> ci_right_95,
     ci_left_99 |-> ci_left_99, ci_right_99 |-> ci_right_99,
     egger |-> egger]

Remember ==
    /\ pc = "done"
    /\ Leave
    /\ earlier' = Some(Kept)
    /\ UNCHANGED forest

CallFresh == earlier = None /\ Call

CallAgain ==
    /\ earlier # None
    /\ Enter(earlier[1].effect_sizes, earlier[1].standard_errors)

NextRepeat == CallFresh \/ CallAgain \/ Run \/ Remember

SpecRepeat == Init /\ [][NextRepeat]_vars

-----------------------------------------------------------------------------
(* The forest-plot scripts.  A script that is running is the record        *)
(* forest: its arguments, its locals and what it has drawn so far.  The    *)
(* scripts are separate programs: one runs at a time, and not during a     *)
(* call of create_funnel_plot.                                             *)

funnel == <<pc, effect_sizes, standard_errors, p_values, save_name, weights,
            summary_effect, precision, se_range, ci_left_95, ci_right_95,
            ci_left_99, ci_right_99, sig_points, ns_points, xlim, ylim, egger,
            files, shown, result, error, events, earlier>>

\* Comparison labels, by input position.
LabelNames == <<"A vs B", "A vs C", "B vs C", "A vs D", "B vs D">>

Labels(n) == SubSeq(LabelNames, 1, n)

\* k numbers that tell their input position: 10 * i + off at position i.
Ramp(k, off) == [i \in 1..k |-> <<10 * i + off, 1>>]

\* a[::-1]
Reverse(a) == [i \in 1..Len(a) |-> a[Len(a) + 1 - i]]

\* np.arange(n)
Arange(n) == [i \in 1..n |-> i - 1]

\* [SIG_COLOR if p < 0.05 else NS_COLOR for p in p_values_rev]
Colors(p) ==
    [i \in 1..Len(p) |-> IF Significant(p[i]) THEN "SIG_COLOR" ELSE "NS_COLOR"]

\* The length zip() stops at.
MinLen(lens) == CHOOSE m \in lens : \A k \in lens : m <= k

\* A forest script stops with an exception.
ForestRaise(exc, line) ==
    forest' = [script |-> forest.script, at |-> "error",
               error |-> <<exc, line>>, events |-> <<>>, files |-> <<>>]

\* Lines 83-96 of create_horizontal_forest_plot: the reversed lists, the
\* row positions and the colours.
HEnter(c, md, lo, hi, p) ==
    /\ pc = "idle"
    /\ forest.script = "none"
    /\ forest' =
          [script |-> "horizontal", at |-> "shade",
           comparisons |-> c, mean_diffs |-> md, ci_lower |-> lo,
           ci_upper |-> hi, p_values |-> p, save_name |-> "None",
           n_comparisons |-> Len(c),
           comparisons_rev |-> Reverse(c), mean_diffs_rev |-> Reverse(md),
           ci_lower_rev |-> Reverse(lo), ci_upper_rev |-> Reverse(hi),
           p_values_rev |-> Reverse(p),
           y_pos |-> Arange(Len(c)), colors |-> Colors(Reverse(p)),
           x_min |-> "None", x_max |-> "None",
           ci_lines |-> <<>>, diamonds |-> <<>>, boxes |-> <<>>,
           yticks |-> <<>>, events |-> <<>>, files |-> <<>>]
    /\ UNCHANGED funnel

HCall ==
    \E n, a, b, c \in 0..MaxRows, p \in SeqsUpTo(PVals, MaxRows) :
        HEnter(Labels(n), Ramp(a, 0), Ramp(b, -3), Ramp(c, 3), p)

\* Lines 105-117: the x range.  min() of an empty list raises ValueError.
HShade ==
    /\ forest.script = "horizontal" /\ forest.at = "shade"
    /\ LET all_values == forest.ci_lower \o forest.ci_upper
                             \o forest.mean_diffs
       IN  IF Len(all_values) = 0
           THEN ForestRaise("ValueError", 106)
           ELSE forest' = [forest EXCEPT
                             !.at = "lines",
                             !.x_min = RSub(Min(all_values), One),
                             !.x_max = RAdd(Max(all_values), <<2, 1>>)]
    /\ UNCHANGED funnel

\* The rows a loop over range(n) draws from the reversed CI lists.
CiLines(f, n) ==
    [i \in 1..n |-> [y |-> f.y_pos[i], lo |-> f.ci_lower_rev[i],
                     hi |-> f.ci_upper_rev[i], color |-> f.colors[i]]]

\* Lines 122-136: one CI line with caps per row.  An index past the end of
\* a list raises IndexError.
HLines ==
    /\ forest.script = "horizontal" /\ forest.at = "lines"
    /\ IF forest.n_comparisons >
              MinLen({Len(forest.ci_lower), Len(forest.ci_upper),
                      Len(forest.p_values)})
       THEN ForestRaise("IndexError", 124)
       ELSE forest' = [forest EXCEPT
                         !.at = "diamonds",
                         !.ci_lines = CiLines(forest, forest.n_comparisons)]
    /\ UNCHANGED funnel

\* for md, y, c in zip(mean_diffs_rev, y_pos, colors)
Diamonds(f) ==
    [i \in 1..MinLen({Len(f.mean_diffs_rev), Len(f.y_pos), Len(f.colors)}) |->
        [y |-> f.y_pos[i], md |-> f.mean_diffs_rev[i], color |-> f.colors[i]]]

\* Lines 141-149.
HDiamonds ==
    /\ forest.script = "horizontal" /\ forest.at = "diamonds"
    /\ forest' = [forest EXCEPT !.at = "boxes", !.diamonds = Diamonds(forest)]
    /\ UNCHANGED funnel

\* Lines 154-180: one value box per zipped row, at y_pos[i].  y_pos is a
\* numpy array: an index past its end raises IndexError.
HBoxes ==
    /\ forest.script = "horizontal" /\ forest.at = "boxes"
    /\ LET k == MinLen({Len(forest.mean_diffs), Len(forest.ci_lower),
                        Len(forest.ci_upper), Len(forest.p_values)})
       IN  IF k > forest.n_comparisons
           THEN ForestRaise("IndexError", 171)
           ELSE forest' = [forest EXCEPT
                  !.at = "axes",
                  !.boxes = [i \in 1..k |->
                      [y |-> forest.y_pos[i], md |-> forest.mean_diffs_rev[i],
                       lo |-> forest.ci_lower_rev[i],
                       hi |-> forest.ci_upper_rev[i],
                       p |-> forest.p_values_rev[i],
                       bold |-> Significant(forest.p_values_rev[i])]]]
    /\ UNCHANGED funnel

\* ax.set_yticks(y_pos); ax.set_yticklabels(comparisons_rev)
YTicks(f) ==
    [i \in 1..Len(f.y_pos) |-> [y |-> f.y_pos[i], label |-> f.comparisons_rev[i]]]

\* Lines 185-230: limits, tick labels, title, legend, interpretation labels.
HAxes ==
    /\ forest.script = "horizontal" /\ forest.at = "axes"
    /\ forest' = [forest EXCEPT !.at = "save", !.yticks = YTicks(forest)]
    /\ UNCHANGED funnel

\* tight_layout; if save_name: savefig; show
SaveThenShow(f, name) ==
    [f EXCEPT !.at = "done", !.save_name = name,
              !.events = (IF Truthy(name) THEN <<"savefig">> ELSE <<>>)
                             \o <<"show">>,
              !.files = IF Truthy(name) THEN <<name>> ELSE <<>>]

\* Lines 235-243.
HSave ==
    /\ forest.script = "horizontal" /\ forest.at = "save"
    /\ \E name \in SaveNames : forest' = SaveThenShow(forest, name)
    /\ UNCHANGED funnel

\* The script is over.
ForestLeave ==
    /\ forest.script # "none"
    /\ forest.at \in {"done", "error"}
    /\ forest' = NoForest
    /\ UNCHANGED funnel

Horizontal ==
    \/ HCall
    \/ HShade
    \/ HLines
    \/ HDiamonds
    \/ HBoxes
    \/ HAxes
    \/ HSave

NextHorizontal == Horizontal \/ ForestLeave

SpecHorizontal == Init /\ [][NextHorizontal]_vars

-----------------------------------------------------------------------------
(* forest_plot_pairwise.py: a script without arguments, on the data of its *)
(* lines 36-46.                                                            *)

Dec3(thousandths) == Norm(thousandths, 1000)

PairwiseComparisons ==
    <<"Condition A vs B", "Condition A vs C", "Condition B vs C">>

PairwiseMeanDiffs == <<Dec3(-1120), Dec3(-2450), Dec3(-1330)>>

PairwiseCiLower == <<Dec3(-2980), Dec3(-4210), Dec3(-3050)>>

PairwiseCiUpper == <<Dec3(740), Dec3(-690), Dec3(390)>>

PairwisePValues == <<Dec3(240), Dec3(4), Dec3(180)>>

PairwiseFile == "Example_Pairwise_ForestPlot_SYNTHETIC.png"

\* Lines 51-63: the reversed lists, the row positions and the colours.
PRun ==
    /\ pc = "idle"
    /\ forest.script = "none"
    /\ forest' =
          [script |-> "pairwise", at |-> "lines",
           comparisons |-> PairwiseComparisons,
           mean_diffs |-> PairwiseMeanDiffs, ci_lower |-> PairwiseCiLower,
           ci_upper |-> PairwiseCiUpper, p_values |-> PairwisePValues,
           save_name |-> "None",
           n_comparisons |-> Len(PairwiseComparisons),
           comparisons_rev |-> Reverse(PairwiseComparisons),
           mean_diffs_rev |-> Reverse(PairwiseMeanDiffs),
           ci_lower_rev |-> Reverse(PairwiseCiLower),
           ci_upper_rev |-> Reverse(PairwiseCiUpper),
           p_values_rev |-> Reverse(PairwisePValues),
           y_pos |-> Arange(Len(Reverse(PairwiseComparisons))),
           colors |-> Colors(Reverse(PairwisePValues)),
           x_min |-> "None", x_max |-> "None",
           ci_lines |-> <<>>, diamonds |-> <<>>, boxes |-> <<>>,
           yticks |-> <<>>, events |-> <<>>, files |-> <<>>]
    /\ UNCHANGED funnel

\* Lines 68-79: for i in range(len(y_pos)).
PLines ==
    /\ forest.script = "pairwise" /\ forest.at = "lines"
    /\ IF Len(forest.y_pos) >
              MinLen({Len(forest.ci_lower), Len(forest.ci_upper),
                      Len(forest.p_values)})
       THEN ForestRaise("IndexError", 69)
       ELSE forest' = [forest EXCEPT
                         !.at = "diamonds",
                         !.ci_lines = CiLines(forest, Len(forest.y_pos))]
    /\ UNCHANGED funnel

\* Lines 84-91.
PDiamonds ==
    /\ forest.script = "pairwise" /\ forest.at = "diamonds"
    /\ forest' = [forest EXCEPT !.at = "axes", !.diamonds = Diamonds(forest)]
    /\ UNCHANGED funnel

\* Lines 96-135: the x range from the CI bounds, the tick labels.
PAxes ==
    /\ forest.script = "pairwise" /\ forest.at = "axes"
    /\ IF Len(forest.ci_lower) = 0 \/ Len(forest.ci_upper) = 0
       THEN ForestRaise("ValueError", 112)
       ELSE forest' = [forest EXCEPT
                         !.at = "boxes",
                         !.x_min = RSub(Min(forest.ci_lower), <<8, 10>>),
                         !.x_max = RAdd(Max(forest.ci_upper), <<16, 10>>),
                         !.yticks = YTicks(forest)]
    /\ UNCHANGED funnel

\* Lines 138-157: for md, p, y in zip(mean_diffs_rev, p_values_rev, y_pos).
PBoxes ==
    /\ forest.script = "pairwise" /\ forest.at = "boxes"
    /\ forest' = [forest EXCEPT
          !.at = "save",
          !.boxes =
              [i \in 1..MinLen({Len(forest.mean_diffs), Len(forest.p_values),
                                Len(forest.y_pos)}) |->
                  [y |-> forest.y_pos[i], md |-> forest.mean_diffs_rev[i],
                   p |-> forest.p_values_rev[i],
                   bold |-> Significant(forest.p_values_rev[i])]]]
    /\ UNCHANGED funnel

\* Lines 180-186: tight_layout, savefig under the script's own file name,
\* show.
PSave ==
    /\ forest.script = "pairwise" /\ forest.at = "save"
    /\ forest' = [forest EXCEPT !.at = "done",
                                !.events = <<"savefig", "show">>,
                                !.files = <<PairwiseFile>>]
    /\ UNCHANGED funnel

Pairwise ==
    \/ PRun
    \/ PLines
    \/ PDiamonds
    \/ PAxes
    \/ PBoxes
    \/ PSave

-----------------------------------------------------------------------------
(* create_subgroup_forest_plot (src/forest_plot_subgroup.py).  subgroups   *)
(* is a dict: here the sequence of its values in insertion order.          *)

GroupNames == <<"Phase 1", "Phase 2", "Phase 3">>

\* A subgroup of n comparisons with the p-values p.
Group(n, p) ==
    [comparisons |-> Labels(n), mean_diffs |-> Ramp(n, 0),
     ci_lower |-> Ramp(n, -3), ci_upper |-> Ramp(n, 3), p_values |-> p]

Groups == {Group(n, p) : n \in 0..MaxRows, p \in SeqsUpTo(PVals, MaxRows)}

Half == <<1, 2>>

\* A faulty row count: the space after the subgroup is left out.
GroupHeightNoGap(data) == RAdd(One, <<Len(data.comparisons), 1>>)

\* Lines 86-88: a header row, the comparisons and half a row of space.
GroupHeight(data) == RAdd(RAdd(One, <<Len(data.comparisons), 1>>), Half)

\* Lines 84-89: total_rows, the heights of the subgroups added up.
RECURSIVE TotalRows(_, _)
TotalRows(subgroups, k) ==
    IF k = 0 THEN Zero
    ELSE RAdd(TotalRows(subgroups, k - 1), GroupHeight(subgroups[k]))

\* The rows one subgroup draws: zip(comparisons, mean_diffs, ci_lower,
\* ci_upper, p_values).
Zipped(data) ==
    MinLen({Len(data.comparisons), Len(data.mean_diffs), Len(data.ci_lower),
            Len(data.ci_upper), Len(data.p_values)})

\* y_position when the loop of line 128 reaches subgroup k (k - 1 subgroups
\* are done): a header, the zipped rows and half a row down for each.
RECURSIVE YBefore(_, _, _)
YBefore(subgroups, k, top) ==
    IF k = 1 THEN top
    ELSE RSub(RSub(RSub(YBefore(subgroups, k - 1, top), One),
                   <<Zipped(subgroups[k - 1]), 1>>), Half)

\* Lines 150-198 for one subgroup whose header is at y.
GroupRows(data, y) ==
    [i \in 1..Zipped(data) |->
        [y |-> RSub(RSub(y, One), <<i - 1, 1>>),
         label |-> data.comparisons[i], md |-> data.mean_diffs[i],
         lo |-> data.ci_lower[i], hi |-> data.ci_upper[i],
         p |-> data.p_values[i],
         color |-> IF Significant(data.p_values[i]) THEN "SIG_COLOR"
                   ELSE "NS_COLOR"]]

RECURSIVE Concat(_, _)
Concat(seqs, k) == IF k = 0 THEN <<>> ELSE Concat(seqs, k - 1) \o seqs[k]

\* Lines 70-93.
SEnter(subgroups) ==
    /\ pc = "idle"
    /\ forest.script = "none"
    /\ forest' =
          [script |-> "subgroup", at |-> "shade", subgroups |-> subgroups,
           save_name |-> "None",
           total_rows |-> TotalRows(subgroups, Len(subgroups)),
           x_min |-> "None", x_max |-> "None", y_position |-> "None",
           subgroup_positions |-> <<>>, rows |-> <<>>, ylim |-> "None",
           events |-> <<>>, files |-> <<>>]
    /\ UNCHANGED funnel

SCall == \E subgroups \in SeqsUpTo(Groups, MaxGroups) : SEnter(subgroups)

\* Lines 96-118.  min() and max() of an empty list raise ValueError.
SShade ==
    /\ forest.script = "subgroup" /\ forest.at = "shade"
    /\ LET n == Len(forest.subgroups)
           all_lowers == Concat([k \in 1..n |-> forest.subgroups[k].ci_lower], n)
           all_uppers == Concat([k \in 1..n |-> forest.subgroups[k].ci_upper], n)
       IN  IF Len(all_lowers) = 0
           THEN ForestRaise("ValueError", 105)
           ELSE IF Len(all_uppers) = 0
           THEN ForestRaise("ValueError", 106)
           ELSE forest' = [forest EXCEPT
                             !.at = "rows",
                             !.x_min = RSub(Min(all_lowers), One),
                             !.x_max = RAdd(Max(all_uppers), <<3, 1>>)]
    /\ UNCHANGED funnel

\* Lines 123-201: the headers and the rows of every subgroup, top down.
SRows ==
    /\ forest.script = "subgroup" /\ forest.at = "rows"
    /\ LET n == Len(forest.subgroups)
           top == RSub(forest.total_rows, One)
           header(k) == YBefore(forest.subgroups, k, top)
       IN  forest' = [forest EXCEPT
              !.at = "axes",
              !.subgroup_positions =
                  [k \in 1..n |-> [y |-> header(k), name |-> GroupNames[k]]],
              !.rows =
                  Concat([k \in 1..n |->
                             GroupRows(forest.subgroups[k], header(k))], n),
              !.y_position = YBefore(forest.subgroups, n + 1, top)]
    /\ UNCHANGED funnel

\* Lines 206-267: headers, limits, tick labels, legend, column header.
SAxes ==
    /\ forest.script = "subgroup" /\ forest.at = "axes"
    /\ forest' = [forest EXCEPT
                    !.at = "save",
                    !.ylim = <<RSub(forest.y_position, Half),
                               forest.total_rows>>]
    /\ UNCHANGED funnel

\* Lines 272-280.
SSave ==
    /\ forest.script = "subgroup" /\ forest.at = "save"
    /\ \E name \in SaveNames : forest' = SaveThenShow(forest, name)
    /\ UNCHANGED funnel

Subgroup ==
    \/ SCall
    \/ SShade
    \/ SRows
    \/ SAxes
    \/ SSave

-----------------------------------------------------------------------------
(* The four scripts, one run at a time. *)

CallWhenFree == forest.script = "none" /\ Call

NextScripts ==
    \/ CallWhenFree
    \/ Run
    \/ Horizontal
    \/ Pairwise
    \/ Subgroup
    \/ ForestLeave

SpecScripts == Init /\ [][NextScripts]_vars

-----------------------------------------------------------------------------
(* The example data of the script (lines 55 and 58), first four studies,   *)
(* and calls on every selection of them in every order.  The funnel is not *)
(* drawn for these calls: the specification stops after lines 87-95.       *)

Dec(hundredths) == Norm(hundredths, 100)

ExampleES == <<Dec(25), Dec(-240), Dec(-180), Dec(50)>>

ExampleSE == <<Dec(35), Dec(42), Dec(38), Dec(55)>>

Injective(f) == \A i, j \in DOMAIN f : f[i] = f[j] => i = j

Selections(n) == {f \in SeqsUpTo(1..n, n) : Injective(f)}

Select(a, f) == [i \in 1..Len(f) |-> a[f[i]]]

CallExample ==
    \E f \in Selections(Len(ExampleES)) :
        Enter(Select(ExampleES, f), Select(ExampleSE, f))

NextExample == CallExample \/ ComputeStats

SpecExample == Init /\ [][NextExample]_vars

\* A finite number as '%.3f' prints it, in thousandths: the nearest multiple
\* of 0.001, a tie going to the even one.  Long division, digit by digit.
Round3(a) ==
    LET n == Abs(a[1])
        d == a[2]
        r0 == n % d
        r1 == (r0 * 10) % d
        r2 == (r1 * 10) % d
        r3 == (r2 * 10) % d
        k == (((n \div d) * 10 + (r0 * 10) \div d) * 10
                + (r1 * 10) \div d) * 10 + (r2 * 10) \div d
        up == IF 2 * r3 > d THEN 1
              ELSE IF 2 * r3 = d THEN k % 2 ELSE 0
    IN  Sign(a[1]) * (k + up)

-----------------------------------------------------------------------------
(* What the properties below speak about. *)

NumEffects == Len(effect_sizes)

\* Lines 87-95 have run: weights, summary_effect and precision are set.
StatsDone == pc \in {"funnel", "scatter", "limits", "egger", "save", "done"}

\* The scatter calls of lines 147-164 have returned.
PointsDrawn == pc \in {"limits", "egger", "save", "done"}

\* Section A has run: the grid and the four boundaries are set.
FunnelDrawn == pc \in {"scatter", "limits", "egger", "save", "done"}

\* Section H has been passed without an exception.
EggerPassed == pc \in {"save", "done"}

\* Non-empty, equally long, every standard error > 0.
ValidInput ==
    /\ NumEffects >= 1
    /\ Len(standard_errors) = NumEffects
    /\ \A i \in 1..NumEffects : RLess(Zero, standard_errors[i])

LengthsAgree ==
    /\ Len(standard_errors) = NumEffects
    /\ p_values # None => Len(p_values[1]) = NumEffects

\* The sum of f over the index set S, in no particular order.
RECURSIVE Sigma(_, _)
Sigma(f, S) ==
    IF S = {} THEN Zero
    ELSE LET i == CHOOSE x \in S : TRUE
         IN  RAdd(f[i], Sigma(f, S \ {i}))

\* sum(w[i] * es[i]) / sum(w[i]) with w[i] = 1 / se[i]^2
InverseVarianceMean(es, se) ==
    LET w == [i \in 1..Len(es) |-> RDiv(One, RMul(se[i], se[i]))]
        we == [i \in 1..Len(es) |-> RMul(w[i], es[i])]
    IN  RDiv(Sigma(we, 1..Len(es)), Sigma(w, 1..Len(es)))

IndexPerms(n) == {f \in [1..n -> 1..n] : Injective(f)}

-----------------------------------------------------------------------------
\* C1: for non-empty, equally long effect_sizes and standard_errors with
\* every standard error > 0, the summary effect that create_funnel_plot
\* computes, and returns, is sum(w[i] * es[i]) / sum(w[i]) with
\* w[i] = 1 / se[i]^2.
C1_SummaryIsInverseVarianceMean ==
    (ValidInput /\ StatsDone) =>
        /\ summary_effect = InverseVarianceMean(effect_sizes, standard_errors)
        /\ pc = "done" => result = Some(summary_effect)

C1_Witness ==
    /\ pc = "done"
    /\ effect_sizes = << <<2, 1>>, <<-1, 1>>, <<-1, 1>> >>
    /\ standard_errors = << <<1, 1>>, <<2, 1>>, <<2, 1>> >>
    /\ result = Some(<<1, 1>>)

\* C2: for effect_sizes = [0.25, -2.40, -1.80, 0.50] and standard_errors =
\* [0.35, 0.42, 0.38, 0.55] the weights are [8.163, 5.669, 6.925, 3.306] to
\* three decimals and the summary effect is -0.930 to three decimals.
C2_ExampleValues ==
    (effect_sizes = ExampleES /\ standard_errors = ExampleSE /\ StatsDone) =>
        /\ [i \in 1..Len(weights) |-> Round3(weights[i])]
               = <<8163, 5669, 6925, 3306>>
        /\ Round3(summary_effect) = -930

\* C2 as stated: weights [8.163, 5.668, 6.925, 3.306], summary effect -0.831.
C2_AsStated ==
    (effect_sizes = ExampleES /\ standard_errors = ExampleSE /\ StatsDone) =>
        /\ [i \in 1..Len(weights) |-> Round3(weights[i])]
               = <<8163, 5668, 6925, 3306>>
        /\ Round3(summary_effect) = -831

C2_Witness ==
    /\ pc = "funnel"
    /\ effect_sizes = ExampleES
    /\ standard_errors = ExampleSE
    /\ summary_effect = <<-2155287, 2317685>>

\* C3: when effect_sizes, standard_errors and p_values are not all of one
\* length, the call ends in an exception and returns nothing: no call gets
\* past the scatter calls with lists of different lengths, and a call that
\* raised has no result.
C3_MismatchEndsInError ==
    /\ PointsDrawn => LengthsAgree
    /\ result # None => pc = "done"
    /\ pc = "error" => result = None /\ summary_effect = "None"

\* One standard error for three effect sizes: the arithmetic of line 92
\* broadcasts, the scatter call of line 162 raises.
C3_Witness ==
    /\ pc = "error"
    /\ NumEffects = 3
    /\ Len(standard_errors) = 1
    /\ error = Some(<<"ValueError", 162>>)

\* C4: when a standard error is <= 0 or a list is empty, the call fails and
\* returns no summary effect.
C4_InvalidInputRejected ==
    ~ValidInput => (pc # "done" /\ result = None)

\* C5: with fewer than 3 points no regression is fitted and section H ends
\* without an (intercept, p) pair; with 3 or more points section H fits.
C5_FitIffThreePoints ==
    /\ NumEffects < 3 => egger.status # "fit"
    /\ (EggerPassed /\ NumEffects < 3) => egger.status = "insufficient"
    /\ (NumEffects >= 3 /\ (EggerPassed \/ error = Some(<<"ValueError", 227>>)))
           => egger.status = "fit"

\* C6: a call with 1 or 2 valid comparisons draws no Egger annotation and
\* completes: only p-values of another length stop it; the summary effect is
\* the inverse-variance mean and is returned, the precision is 1 / se, and
\* both funnels are summary -/+ z * se over the 100-point grid.
C6_SmallInputCompletes ==
    (ValidInput /\ NumEffects <= 2) =>
        /\ pc = "error" => (p_values # None /\ Len(p_values[1]) # NumEffects)
        /\ egger.status # "fit"
        /\ pc = "done" =>
              /\ egger.status = "insufficient"
              /\ result =
                    Some(InverseVarianceMean(effect_sizes, standard_errors))
              /\ \A i \in 1..NumEffects :
                    RMul(precision[i], standard_errors[i]) = One
              /\ Len(se_range) = GridPoints
              /\ \A i \in 1..GridPoints :
                    /\ ci_left_95[i] = RSub(result[1], RMul(Z95, se_range[i]))
                    /\ ci_right_95[i] = RAdd(result[1], RMul(Z95, se_range[i]))
                    /\ ci_left_99[i] = RSub(result[1], RMul(Z99, se_range[i]))
                    /\ ci_right_99[i] = RAdd(result[1], RMul(Z99, se_range[i]))

C6_Witness ==
    /\ pc = "done"
    /\ effect_sizes = << <<-1, 1>>, <<2, 1>> >>
    /\ standard_errors = << <<1, 1>>, <<2, 1>> >>
    /\ egger.status = "insufficient"
    /\ result = Some(<<-2, 5>>)

\* t^2 of the intercept of the least-squares line of y on x: the statistic
\* of the two-sided test of the null hypothesis that the intercept is zero.
InterceptT2(x, y) ==
    LET n == <<Len(x), 1>>
        sxx == RMul(n, Cov(x, x))
        sxy == RMul(n, Cov(x, y))
        syy == RMul(n, Cov(y, y))
        sse == RSub(syy, RDiv(RMul(sxy, sxy), sxx))
        s2 == RDiv(sse, <<Len(x) - 2, 1>>)
        b0 == RSub(Mean(y), RMul(RDiv(sxy, sxx), Mean(x)))
        var0 == RMul(s2, RAdd(RInv(n), RDiv(RMul(Mean(x), Mean(x)), sxx)))
    IN  RDiv(RMul(b0, b0), var0)

\* C7: the p-value section H reports is that of the test of the intercept
\* being zero, in the regression of effect_sizes on standard_errors.
C7_PValueIsOfIntercept ==
    (egger.status = "fit" /\ ~AllSame(standard_errors)) =>
        egger.t2 = InterceptT2(standard_errors, effect_sizes)

\* C8: whenever the test is performed exactly one verdict is reported:
\* "Potential asymmetry" iff p < 0.05, "No significant asymmetry" otherwise,
\* p = 0.05 exactly included; without a fit there is no verdict.
C8_VerdictByThreshold ==
    /\ egger.status = "fit" =>
          /\ egger.verdict \in
                {"Potential asymmetry", "No significant asymmetry"}
          /\ egger.verdict = "Potential asymmetry"
                <=> RLess(TCrit2(egger.df), egger.t2)
    /\ egger.status # "fit" => "verdict" \notin DOMAIN egger
    /\ \A df \in 1..MaxN :
          Verdict(TCrit2(df), df) = "No significant asymmetry"

C8_Witness ==
    /\ pc = "done"
    /\ egger.status = "fit"
    /\ effect_sizes = << <<-1, 1>>, <<-1, 1>>, <<2, 1>> >>
    /\ standard_errors = << <<1, 1>>, <<1, 1>>, <<2, 1>> >>
    /\ egger.verdict = "Potential asymmetry"

\* C9: with all standard errors equal to one positive value the summary
\* effect is the arithmetic mean of the effect sizes.
C9_EqualErrorsGiveMean ==
    (ValidInput /\ AllSame(standard_errors) /\ StatsDone) =>
        summary_effect =
            RDiv(Sigma(effect_sizes, 1..NumEffects), <<NumEffects, 1>>)

C9_Witness ==
    /\ StatsDone
    /\ effect_sizes = << <<-1, 1>>, <<2, 1>>, <<2, 1>> >>
    /\ standard_errors = << <<2, 1>>, <<2, 1>>, <<2, 1>> >>
    /\ summary_effect = <<1, 1>>

\* C10: permuting effect_sizes and standard_errors by one permutation
\* leaves the summary effect unchanged.
C10_PermutationInvariant ==
    (ValidInput /\ StatsDone) =>
        \A f \in IndexPerms(NumEffects) :
            SummaryEffect(Select(effect_sizes, f), Select(standard_errors, f))
                = summary_effect

C10_Witness ==
    /\ StatsDone
    /\ effect_sizes = << <<2, 1>>, <<-1, 1>>, <<-1, 1>> >>
    /\ standard_errors = << <<1, 1>>, <<2, 1>>, <<1, 1>> >>
    /\ summary_effect = <<1, 3>>

\* C11: at every grid point se > 0 the boundaries are
\* lower = summary_effect - z * se and upper = summary_effect + z * se, so
\* upper - lower = 2 * z * se and their midpoint is the summary effect, for
\* z = 1.96 and for z = 2.58.  Checked where section A has just assigned
\* the four boundaries, which no later line assigns again.
AroundSummary(lower, upper, z, se) ==
    /\ lower = RSub(summary_effect, RMul(z, se))
    /\ upper = RAdd(summary_effect, RMul(z, se))
    /\ RSub(upper, lower) = RMul(<<2, 1>>, RMul(z, se))
    /\ RDiv(RAdd(lower, upper), <<2, 1>>) = summary_effect

C11_BoundariesAroundSummary ==
    pc = "scatter" =>
        /\ Len(ci_left_95) = Len(se_range) /\ Len(ci_right_95) = Len(se_range)
        /\ Len(ci_left_99) = Len(se_range) /\ Len(ci_right_99) = Len(se_range)
        /\ \A i \in 1..Len(se_range) :
              RLess(Zero, se_range[i]) =>
                  /\ AroundSummary(ci_left_95[i], ci_right_95[i],
                                   <<196, 100>>, se_range[i])
                  /\ AroundSummary(ci_left_99[i], ci_right_99[i],
                                   <<258, 100>>, se_range[i])

\* summary 1, last grid point 2.6: 1 + 1.96 * 2.6 and 1 - 2.58 * 2.6
C11_Witness ==
    /\ pc = "scatter"
    /\ summary_effect = <<1, 1>>
    /\ se_range[GridPoints] = <<13, 5>>
    /\ ci_right_95[GridPoints] = <<762, 125>>
    /\ ci_left_99[GridPoints] = <<-1427, 250>>

C13_GridAscendingPositive ==
    (ValidInput /\ FunnelDrawn) =>
        /\ \A i \in 1..(Len(se_range) - 1) : RLeq(se_range[i], se_range[i + 1])
        /\ \A i \in 1..Len(se_range) : RLess(Zero, se_range[i])
        /\ \E i \in 1..Len(se_range) :
              \A j \in 1..Len(standard_errors) :
                  RLeq(standard_errors[j], se_range[i])

\* C14: precision has the length and order of standard_errors, and
\* precision[i] * standard_errors[i] = 1 at every index.
C14_PrecisionIsReciprocal ==
    (StatsDone /\ \A i \in 1..Len(standard_errors) :
                      RLess(Zero, standard_errors[i])) =>
        /\ Len(precision) = Len(standard_errors)
        /\ \A i \in 1..Len(standard_errors) :
              RMul(precision[i], standard_errors[i]) = One

C14_Witness ==
    /\ StatsDone
    /\ standard_errors = << <<1, 1>>, <<2, 1>>, <<2, 1>> >>
    /\ precision = << <<1, 1>>, <<1, 2>>, <<1, 2>> >>

\* C15: two completed calls with the same effect_sizes and standard_errors
\* and any p_values (None too) and save_name have the same summary effect,
\* precision, funnel boundaries and Egger result.
C15_StatisticsIgnoreDisplayInputs ==
    (pc = "done" /\ earlier # None
        /\ earlier[1].effect_sizes = effect_sizes
        /\ earlier[1].standard_errors = standard_errors) =>
            /\ result = Some(earlier[1].summary_effect)
            /\ precision = earlier[1].precision
            /\ se_range = earlier[1].se_range
            /\ ci_left_95 = earlier[1].ci_left_95
            /\ ci_right_95 = earlier[1].ci_right_95
            /\ ci_left_99 = earlier[1].ci_left_99
            /\ ci_right_99 = earlier[1].ci_right_99
            /\ egger = earlier[1].egger

\* The earlier call had p-values and saved a file, this one has neither.
C15_Witness ==
    /\ pc = "done"
    /\ earlier # None
    /\ earlier[1].coloured /\ earlier[1].saved
    /\ p_values = None /\ files = <<>>
    /\ Len(effect_sizes) = 3
    /\ egger.status = "fit"
    /\ egger = earlier[1].egger
    /\ result = Some(earlier[1].summary_effect)

\* C16: a call never changes the sequences it was given; between calls
\* nothing of a call is left, so every call starts from the one idle state;
\* and the summary effect returned is a function of the call's own
\* effect_sizes and standard_errors, whatever calls came before.
C16_NoSideEffectsOnData ==
    /\ [](pc = "idle" => Init)
    /\ [](pc = "done" =>
            result = Some(InverseVarianceMean(effect_sizes, standard_errors)))
    /\ [][(pc # "idle" /\ pc' # "idle") =>
            /\ effect_sizes' = effect_sizes
            /\ standard_errors' = standard_errors
            /\ pc # "scatter" => p_values' = p_values]_vars

C16_Witness ==
    /\ pc = "done"
    /\ effect_sizes = << <<2, 1>>, <<-1, 1>> >>
    /\ standard_errors = << <<2, 1>>, <<1, 1>> >>
    /\ p_values = Some(<< <<1, 100>>, <<5, 100>> >>)
    /\ result = Some(<<-2, 5>>)

\* Three points on one straight line: the cross product of the differences
\* is zero.
Collinear(x, y) ==
    RMul(RSub(x[2], x[1]), RSub(y[3], y[1]))
        = RMul(RSub(x[3], x[1]), RSub(y[2], y[1]))

\* C17: for exactly 3 collinear (standard error, effect size) points with
\* standard errors not all equal the regression is fitted, its slope and
\* intercept are finite and every point lies on the fitted line (residual
\* sum of squares 0).
C17_CollinearPerfectFit ==
    (EggerPassed /\ NumEffects = 3 /\ Len(standard_errors) = 3
        /\ ~AllSame(standard_errors)
        /\ Collinear(standard_errors, effect_sizes)) =>
            /\ egger.status = "fit"
            /\ IsFinite(egger.slope) /\ IsFinite(egger.intercept)
            /\ \A i \in 1..3 :
                  effect_sizes[i] =
                      RAdd(egger.intercept,
                           RMul(egger.slope, standard_errors[i]))
            /\ Sigma([i \in 1..3 |->
                        LET res == RSub(effect_sizes[i],
                                        RAdd(egger.intercept,
                                             RMul(egger.slope,
                                                  standard_errors[i])))
                        IN  RMul(res, res)], 1..3) = Zero

\* The points (1, -1), (1, -1), (2, 2): the line es = -4 + 3 * se.
C17_Witness ==
    /\ pc = "done"
    /\ standard_errors = << <<1, 1>>, <<1, 1>>, <<2, 1>> >>
    /\ effect_sizes = << <<-1, 1>>, <<-1, 1>>, <<2, 1>> >>
    /\ egger.slope = <<3, 1>>
    /\ egger.intercept = <<-4, 1>>


\* The j-th smallest index of the set S.
NthOf(S, j) == CHOOSE i \in S : Cardinality({k \in S : k < i}) = j - 1

\* The elements of a at the indices S, in the order of a.
AtIndices(a, S) == [j \in 1..Cardinality(S) |-> a[NthOf(S, j)]]

\* The colour of a p-value as the claim states it.
ColourOf(p) == IF RLess(p, <<5, 100>>) THEN "SIG_COLOR" ELSE "NS_COLOR"

\* A horizontal or pairwise forest plot is drawn without an exception.
RowsDrawn ==
    /\ forest.script \in {"horizontal", "pairwise"}
    /\ forest.at \in {"save", "done"}

\* A subgroup forest plot is drawn without an exception.
SubgroupDrawn ==
    /\ forest.script = "subgroup"
    /\ forest.at \in {"axes", "save", "done"}

\* The five lists of a horizontal or pairwise forest plot are equally long.
ListsAgree ==
    /\ Len(forest.mean_diffs) = Len(forest.comparisons)
    /\ Len(forest.ci_lower) = Len(forest.comparisons)
    /\ Len(forest.ci_upper) = Len(forest.comparisons)
    /\ Len(forest.p_values) = Len(forest.comparisons)

\* The five lists of every subgroup are equally long.
GroupsAgree ==
    \A k \in 1..Len(forest.subgroups) :
        LET data == forest.subgroups[k]
        IN  /\ Len(data.mean_diffs) = Len(data.comparisons)
            /\ Len(data.ci_lower) = Len(data.comparisons)
            /\ Len(data.ci_upper) = Len(data.comparisons)
            /\ Len(data.p_values) = Len(data.comparisons)

\* C18: in all four scripts every comparison is classified exactly once
\* against 0.05: it has the significant colour iff its p-value is strictly
\* below 0.05 (p = 0.05 is non-significant).  In the funnel plot the two
\* scatter groups are the points at the indices with p < 0.05 and the points
\* at the other indices (all points in the one group when no p-values are
\* given): disjoint, and together every input point once.  In the forest
\* plots with lists of one length every input comparison has one CI line,
\* one diamond and one value box, all in the colour of its own p-value.
C18_ClassifiedOnceAgainstAlpha ==
    /\ (PointsDrawn /\ p_values = None) =>
          /\ sig_points = <<>>
          /\ ns_points = [i \in 1..NumEffects |->
                             <<effect_sizes[i], precision[i]>>]
    /\ (PointsDrawn /\ p_values # None) =>
          LET p == p_values[1]
              below == {i \in 1..Len(p) : RLess(p[i], <<5, 100>>)}
              pts == [i \in 1..NumEffects |-> <<effect_sizes[i], precision[i]>>]
          IN  /\ Len(p) = NumEffects
              /\ sig_points = AtIndices(pts, below)
              /\ ns_points = AtIndices(pts, (1..NumEffects) \ below)
              /\ Len(sig_points) + Len(ns_points) = NumEffects
    /\ (RowsDrawn /\ ListsAgree) =>
          LET n == Len(forest.comparisons)
          IN  /\ Len(forest.ci_lines) = n
              /\ Len(forest.diamonds) = n
              /\ Len(forest.boxes) = n
              /\ \A i \in 1..n :
                    /\ forest.ci_lines[n + 1 - i].color =
                           ColourOf(forest.p_values[i])
                    /\ forest.diamonds[n + 1 - i].color =
                           ColourOf(forest.p_values[i])
                    /\ forest.boxes[n + 1 - i].bold =
                           RLess(forest.p_values[i], <<5, 100>>)
    /\ (SubgroupDrawn /\ GroupsAgree) =>
          LET n == Len(forest.subgroups)
              all_p == Concat([k \in 1..n |-> forest.subgroups[k].p_values], n)
          IN  /\ Len(forest.rows) = Len(all_p)
              /\ \A j \in 1..Len(all_p) :
                    /\ forest.rows[j].p = all_p[j]
                    /\ forest.rows[j].color = ColourOf(all_p[j])

\* A horizontal forest plot of p-values 0.05 and 0.01 is drawn: input
\* position 1 (p = 0.05) is the non-significant top row, input position 2
\* the significant bottom row.
C18_Witness ==
    /\ forest.script = "horizontal"
    /\ forest.at = "done"
    /\ ListsAgree
    /\ forest.p_values = << <<5, 100>>, <<1, 100>> >>
    /\ forest.ci_lines[2].color = "NS_COLOR"
    /\ forest.ci_lines[1].color = "SIG_COLOR"

\* The file name a finished function call was given is a name to save under.
Named(name) == name \notin {"None", ""}

\* What a finished chart did after its last element: savefig then show when
\* saving, show alone otherwise; and the files written.
SavedOnce(name, ev, written) ==
    /\ ev = <<"savefig", "show">>
    /\ written = <<name>>

ShownOnly(ev, written) ==
    /\ ev = <<"show">>
    /\ written = <<>>

\* C19 as the code has it: create_funnel_plot, create_horizontal_forest_plot
\* and create_subgroup_forest_plot write the image only when save_name is a
\* non-empty name, then once, after the chart elements and before show; with
\* None or '' the chart is shown and no file is written.  The pairwise script
\* takes no file name: it always writes
\* Example_Pairwise_ForestPlot_SYNTHETIC.png once, after the chart elements
\* and before show.  Nothing is written or shown before the chart is drawn.
C19_SavedOnlyWhenNamed ==
    /\ pc = "done" =>
          IF Named(save_name) THEN SavedOnce(save_name, events, files)
          ELSE ShownOnly(events, files)
    /\ pc # "done" => (events = <<>> /\ files = <<>>)
    /\ (forest.script \in {"horizontal", "subgroup"} /\ forest.at = "done") =>
          IF Named(forest.save_name)
          THEN SavedOnce(forest.save_name, forest.events, forest.files)
          ELSE ShownOnly(forest.events, forest.files)
    /\ (forest.script = "pairwise" /\ forest.at = "done") =>
          SavedOnce(PairwiseFile, forest.events, forest.files)
    /\ (forest.script # "none" /\ forest.at # "done") =>
          (forest.events = <<>> /\ forest.files = <<>>)

\* The pairwise script is done: it was given no file name and wrote its file.
C19_Witness ==
    /\ forest.script = "pairwise"
    /\ forest.at = "done"
    /\ forest.save_name = "None"
    /\ forest.files = <<PairwiseFile>>
    /\ forest.events = <<"savefig", "show">>

\* C19 as stated: in each of the four scripts a file is written only when a
\* non-empty file name was supplied.
C19_AsStated ==
    /\ files # <<>> => Named(save_name)
    /\ (forest.script # "none" /\ forest.files # <<>>) =>
          Named(forest.save_name)

\* C20: whenever a horizontal or pairwise forest plot is drawn without error
\* for n labels, the row at vertical position n - 1 - i shows the label, the
\* mean difference, the CI bounds, the p-value and the colour of input
\* position i, for every i in 0..n-1 (here i in 1..n, the row at y = n - i).
C20_RowsFromOneInputPosition ==
    RowsDrawn =>
        LET n == Len(forest.comparisons)
            at(rows, y) == {r \in 1..Len(rows) : rows[r].y = y}
            shows(rows, y, Ok(_)) ==
                /\ at(rows, y) # {}
                /\ \A r \in at(rows, y) : Ok(rows[r])
            is(list, i, v) == i <= Len(list) /\ list[i] = v
        IN  \A i \in 1..n :
               /\ shows(forest.yticks, n - i,
                        LAMBDA r : r.label = forest.comparisons[i])
               /\ shows(forest.ci_lines, n - i,
                        LAMBDA r : /\ is(forest.ci_lower, i, r.lo)
                                   /\ is(forest.ci_upper, i, r.hi)
                                   /\ i <= Len(forest.p_values)
                                   /\ r.color = ColourOf(forest.p_values[i]))
               /\ shows(forest.diamonds, n - i,
                        LAMBDA r : /\ is(forest.mean_diffs, i, r.md)
                                   /\ i <= Len(forest.p_values)
                                   /\ r.color = ColourOf(forest.p_values[i]))
               /\ shows(forest.boxes, n - i,
                        LAMBDA r : /\ is(forest.mean_diffs, i, r.md)
                                   /\ is(forest.p_values, i, r.p)
                                   /\ forest.script = "horizontal" =>
                                         /\ is(forest.ci_lower, i, r.lo)
                                         /\ is(forest.ci_upper, i, r.hi))

\* The positions create_subgroup_forest_plot assigned, in the order of the
\* loop of line 128: each subgroup's header, then its comparison rows.
RowsBefore(k) ==
    Len(Concat([j \in 1..(k - 1) |-> forest.subgroups[j].comparisons], k - 1))

AssignedInTurn ==
    LET n == Len(forest.subgroups)
        of(k) ==
            <<forest.subgroup_positions[k].y>> \o
            [i \in 1..Len(forest.subgroups[k].comparisons) |->
                forest.rows[RowsBefore(k) + i].y]
    IN  Concat([k \in 1..n |-> of(k)], n)

\* C21: in create_subgroup_forest_plot, for subgroups whose five lists are
\* equally long, the positions assigned in turn to headers and comparison
\* rows strictly decrease (so no two share a position), every one of them
\* lies within the y-axis limits finally set, and the running position after
\* the last subgroup is exactly -1.
C21_PositionsDescendToMinusOne ==
    (forest.script = "subgroup" /\ forest.at \in {"save", "done"}
        /\ GroupsAgree) =>
        LET ys == AssignedInTurn
        IN  /\ Len(ys) = Len(forest.subgroup_positions) + Len(forest.rows)
            /\ \A i \in 1..(Len(ys) - 1) : RLess(ys[i + 1], ys[i])
            /\ \A i, j \in 1..Len(ys) : i # j => ys[i] # ys[j]
            /\ \A i \in 1..Len(ys) :
                  /\ RLeq(forest.ylim[1], ys[i])
                  /\ RLeq(ys[i], forest.ylim[2])
            /\ forest.y_position = <<-1, 1>>

\* Subgroups of two and of one comparison are drawn: total_rows is 6, the
\* headers are at 5 and 3/2, the rows at 4, 3 and 1/2, the limits (-3/2, 6).
C21_Witness ==
    /\ forest.script = "subgroup"
    /\ forest.at = "done"
    /\ GroupsAgree
    /\ Len(forest.subgroups) = 2
    /\ AssignedInTurn =
          << <<5, 1>>, <<4, 1>>, <<3, 1>>, <<3, 2>>, <<1, 2>> >>
    /\ forest.ylim = << <<-3, 2>>, <<6, 1>> >>
    /\ forest.y_position = <<-1, 1>>

\* C22: for every non-empty input with all standard errors > 0, the summary
\* effect create_funnel_plot returns lies between the smallest and the
\* largest effect size, and so the summary-effect line (drawn at that value)
\* is inside the x-axis limits the function has set.
C22_SummaryWithinEffects ==
    (/\ pc = "done"
     /\ NumEffects >= 1
     /\ Len(standard_errors) >= 1
     /\ \A i \in 1..Len(standard_errors) : RLess(Zero, standard_errors[i])) =>
        /\ result = Some(summary_effect)
        /\ RLeq(Min(effect_sizes), summary_effect)
        /\ RLeq(summary_effect, Max(effect_sizes))
        /\ RLess(xlim[1], summary_effect)
        /\ RLess(summary_effect, xlim[2])

\* Effect sizes -1 and 2 with standard errors 1 and 2: the call returns
\* (-1 + 2/4) / (1 + 1/4) = -2/5, inside the limits (-29/10, 39/10).
C22_Witness ==
    /\ pc = "done"
    /\ effect_sizes = << <<-1, 1>>, <<2, 1>> >>
    /\ standard_errors = << <<1, 1>>, <<2, 1>> >>
    /\ result = Some(<<-2, 5>>)
    /\ xlim = << <<-29, 10>>, <<39, 10>> >>

=============================================================================
